---- MODULE Spec2Model ----
(***************************************************************************)
(* A model of financetoolkit/edgar_model.py: the EDGAR concept extraction  *)
(* (_extract_financial_items), the statement assembly and the module-level *)
(* caches of get_financial_statement.                                      *)
(*                                                                         *)
(* Texts that the code compares or parses (dates) are modelled as the      *)
(* sequence of their numeric chunks: "2022-12-31" is <<2022, 12, 31>> and  *)
(* the empty string (also the .get default of a missing key) is <<>>.      *)
(* Python's string order on zero-padded ISO dates is the lexicographic     *)
(* order of these sequences.                                               *)
(***************************************************************************)
EXTENDS Integers, Sequences, FiniteSets, TLC

VARIABLES
    sec_facts,            \* the company-facts JSON the SEC serves for the known CIK
    _ticker_cik_cache,    \* edgar_model._ticker_cik_cache
    _company_facts_cache, \* edgar_model._company_facts_cache
    http_requests,        \* number of requests.get calls issued so far
    items,                \* the dict _extract_financial_items returned in the last call
    ret,                  \* outcome of the last call of the module's functions
    now,                  \* time.time(), in ticks of 0.05 s
    _last_request_time,   \* edgar_model._last_request_time, in ticks
    _rate_lock,           \* the thread holding edgar_model._rate_lock, 0 when free
    pc,                   \* where each thread stands in _rate_limited_get
    delay,                \* per thread: the argument of its time.sleep call
    wake,                 \* per thread: the time its time.sleep may return from
    sent                  \* the times at which requests.get was called, in order

\* the state of _rate_limited_get; it moves in SpecRate only, the other
\* specifications count the requests without timing them
rate_vars == <<now, _last_request_time, _rate_lock, pc, delay, wake, sent>>

vars == <<sec_facts, _ticker_cik_cache, _company_facts_cache, http_requests, items, ret,
          rate_vars>>

(***************************************************************************)
(* Bounds of the model.                                                    *)
(***************************************************************************)
MaxObs == 2   \* observations in the served company-facts document
MaxTime == 6  \* ticks of the clock
MaxCalls == 3 \* calls of _rate_limited_get

(***************************************************************************)
(* Small maps (Python dicts) as functions with a finite domain.            *)
(***************************************************************************)
EmptyMap == [k \in {} |-> 0]

Get(d, k, default) == IF k \in DOMAIN d THEN d[k] ELSE default

Put(d, k, v) == [x \in DOMAIN d \cup {k} |-> IF x = k THEN v ELSE d[x]]

(***************************************************************************)
(* Texts as chunk sequences; Python's str comparison.                      *)
(***************************************************************************)
RECURSIVE StrLess(_, _)
StrLess(a, b) ==
    IF b = <<>> THEN FALSE
    ELSE IF a = <<>> THEN TRUE
    ELSE IF Head(a) # Head(b) THEN Head(a) < Head(b)
    ELSE StrLess(Tail(a), Tail(b))

(***************************************************************************)
(* datetime.strptime(s, "%Y-%m-%d") and (end_dt - start_dt).days           *)
(***************************************************************************)
IsLeap(y) == (y % 4 = 0) /\ ((y % 100 # 0) \/ (y % 400 = 0))

DaysInMonth(y, m) ==
    IF m = 2 THEN (IF IsLeap(y) THEN 29 ELSE 28)
    ELSE IF m \in {4, 6, 9, 11} THEN 30 ELSE 31

\* strptime raises ValueError unless the text is a calendar date
Parses(s) ==
    /\ Len(s) = 3
    /\ s[1] \in 1..9999
    /\ s[2] \in 1..12
    /\ s[3] \in 1..DaysInMonth(s[1], s[2])

RECURSIVE DaysBeforeMonth(_, _)
DaysBeforeMonth(y, m) ==
    IF m = 1 THEN 0 ELSE DaysBeforeMonth(y, m - 1) + DaysInMonth(y, m - 1)

\* the proleptic Gregorian ordinal of a parsed date
Ordinal(s) ==
    LET y1 == s[1] - 1
    IN  y1 * 365 + (y1 \div 4) - (y1 \div 100) + (y1 \div 400)
        + DaysBeforeMonth(s[1], s[2]) + s[3]

Duration(start_date, end_date) == Ordinal(end_date) - Ordinal(start_date)

(***************************************************************************)
(* The concept dictionaries: field name -> ordered synonyms, in            *)
(* declaration order.  The model keeps the fields whose raw concepts the   *)
(* served document can hold; every other field of the source resolves the  *)
(* same way as GrossProfit does here (no synonym present).                 *)
(***************************************************************************)
INCOME_CONCEPTS ==
    << [name |-> "Revenues",
        concepts |-> <<"Revenues",
                       "RevenueFromContractWithCustomerExcludingAssessedTax">>],
       [name |-> "GrossProfit", concepts |-> <<"GrossProfit">>],
       [name |-> "NetIncomeLoss", concepts |-> <<"NetIncomeLoss">>] >>

BALANCE_CONCEPTS ==
    << [name |-> "CashAndCashEquivalents",
        concepts |-> <<"CashAndCashEquivalentsAtCarryingValue",
                       "CashCashEquivalentsAndShortTermInvestments", "Cash">>],
       [name |-> "TotalAssets", concepts |-> <<"Assets">>] >>

CASHFLOW_CONCEPTS ==
    << [name |-> "NetIncomeLoss", concepts |-> <<"NetIncomeLoss", "ProfitLoss">>],
       [name |-> "CashAtEndOfPeriod",
        concepts |-> <<"CashCashEquivalentsRestrictedCashAndRestrictedCashEquivalents",
                       "CashAndCashEquivalentsAtCarryingValue">>] >>

Statements == {"income", "balance", "cashflow"}

ConceptMapping(statement) ==
    CASE statement = "income" -> INCOME_CONCEPTS
      [] statement = "balance" -> BALANCE_CONCEPTS
      [] statement = "cashflow" -> CASHFLOW_CONCEPTS

(***************************************************************************)
(* _extract_financial_items                                                *)
(***************************************************************************)
FormFilter(quarter) == IF quarter THEN "10-Q" ELSE "10-K"

\* facts.get("facts", {}).get("us-gaap", {})
UsGaap(facts) == Get(facts, "us-gaap", EmptyMap)

UnitPriority == <<"USD", "USD/shares", "shares", "pure">>

\* mutant of UnitKey: the priority list walked from its end
UnitKeyReversed(units) ==
    IF "pure" \in DOMAIN units THEN "pure"
    ELSE IF "shares" \in DOMAIN units THEN "shares"
    ELSE IF "USD/shares" \in DOMAIN units THEN "USD/shares"
    ELSE IF "USD" \in DOMAIN units THEN "USD"
    ELSE "None"

RECURSIVE FirstUnit(_, _)
FirstUnit(units, i) ==
    IF i > Len(UnitPriority) THEN "None"
    ELSE IF UnitPriority[i] \in DOMAIN units THEN UnitPriority[i]
    ELSE FirstUnit(units, i + 1)

\* the unit key loop: the first label of the priority list that is present
UnitKey(units) == FirstUnit(units, 1)

MinAnnualDays == 350

\* mutant of LooksQuarterly: the duration step guarded by `quarter`
\* instead of `not quarter`
LooksQuarterlyInverted(entry, quarter) ==
    /\ quarter
    /\ entry.start # <<>>
    /\ entry.end # <<>>
    /\ Parses(entry.start)
    /\ Parses(entry.end)
    /\ Duration(entry.start, entry.end) < MinAnnualDays

\* mutant of LooksQuarterly: an entry whose dates are missing or do not
\* parse is skipped as well
LooksQuarterlyStrict(entry, quarter) ==
    /\ ~quarter
    /\ \/ entry.start = <<>>
       \/ ~Parses(entry.start)
       \/ ~Parses(entry.end)
       \/ Duration(entry.start, entry.end) < MinAnnualDays

\* mutant of LooksQuarterly: the duration step applied in both modes
LooksQuarterlyAnyMode(entry, quarter) ==
    /\ entry.start # <<>>
    /\ entry.end # <<>>
    /\ Parses(entry.start)
    /\ Parses(entry.end)
    /\ Duration(entry.start, entry.end) < MinAnnualDays

\* mutant of LooksQuarterly: a duration of exactly 350 days skipped as well
LooksQuarterlyInclusive(entry, quarter) ==
    /\ ~quarter
    /\ entry.start # <<>>
    /\ entry.end # <<>>
    /\ Parses(entry.start)
    /\ Parses(entry.end)
    /\ Duration(entry.start, entry.end) <= MinAnnualDays

\* the duration step: an annual entry that "looks quarterly" is skipped;
\* a ValueError of strptime is swallowed and the entry kept
LooksQuarterly(entry, quarter) ==
    /\ ~quarter
    /\ entry.start # <<>>
    /\ entry.end # <<>>
    /\ Parses(entry.start)
    /\ Parses(entry.end)
    /\ Duration(entry.start, entry.end) < MinAnnualDays

\* mutant of Survives: the form compared by prefix (form.startswith)
SurvivesPrefix(entry, quarter) ==
    /\ entry.form \in (IF quarter THEN {"10-Q"} ELSE {"10-K", "10-K/A"})
    /\ entry.end # <<>>
    /\ ~LooksQuarterly(entry, quarter)

\* mutant of Survives: an entry without end date kept
SurvivesEmptyEnd(entry, quarter) ==
    /\ entry.form = FormFilter(quarter)
    /\ ~LooksQuarterly(entry, quarter)

\* the three `continue` tests of the entry loop
Survives(entry, quarter) ==
    /\ entry.form = FormFilter(quarter)
    /\ entry.end # <<>>
    /\ ~LooksQuarterly(entry, quarter)

\* mutant of Filings: a missing filed date taken as later than every date
FilingsUndatedNewest(entries, quarter, end_date) ==
    LET kept == SelectSeq(entries,
                          LAMBDA e : Survives(e, quarter) /\ e.end = end_date)
    IN  [i \in 1..Len(kept) |->
            <<IF kept[i].filed = <<>> THEN <<9999, 12, 31>> ELSE kept[i].filed,
              Get(kept[i], "val", 0)>>]

\* filing_entries[end_date]: the (filed, val) pairs in input order, val
\* being entry.get("val", 0)
Filings(entries, quarter, end_date) ==
    LET kept == SelectSeq(entries,
                          LAMBDA e : Survives(e, quarter) /\ e.end = end_date)
    IN  [i \in 1..Len(kept) |-> <<kept[i].filed, Get(kept[i], "val", 0)>>]

\* the keys of filing_entries
FilingDates(entries, quarter) ==
    {entries[i].end : i \in {j \in 1..Len(entries) : Survives(entries[j], quarter)}}

\* mutant of InsertDesc: an entry put before the entries of equal key (the
\* sort not stable)
InsertDescBeforeEqual(x, sorted) ==
    LET k == Cardinality({i \in 1..Len(sorted) : StrLess(x[1], sorted[i][1])})
    IN  SubSeq(sorted, 1, k) \o <<x>> \o SubSeq(sorted, k + 1, Len(sorted))

\* list.sort(key=lambda x: x[0], reverse=True): stable, descending
InsertDesc(x, sorted) ==
    LET k == Cardinality({i \in 1..Len(sorted) : ~StrLess(sorted[i][1], x[1])})
    IN  SubSeq(sorted, 1, k) \o <<x>> \o SubSeq(sorted, k + 1, Len(sorted))

RECURSIVE SortFiledDesc(_)
SortFiledDesc(filings) ==
    IF filings = <<>> THEN <<>>
    ELSE InsertDesc(filings[Len(filings)],
                    SortFiledDesc(SubSeq(filings, 1, Len(filings) - 1)))

\* mutant of LatestFiled: the first entry taken without sorting
LatestFiledUnsorted(filings) == filings[1][2]

\* filings.sort(...); field_data[end_date] = filings[0][1]
LatestFiled(filings) == SortFiledDesc(filings)[1][2]

\* the deduplication loop over one concept's filing_entries
Deduplicate(entries, quarter, field_data) ==
    LET ends == FilingDates(entries, quarter)
    IN  [d \in DOMAIN field_data \cup ends |->
            IF d \in ends THEN LatestFiled(Filings(entries, quarter, d))
            ELSE field_data[d]]

\* mutant of ResolveFrom: the loop without its `break`
RECURSIVE ResolveFromNoBreak(_, _, _, _, _)
ResolveFromNoBreak(us_gaap, concept_names, i, quarter, field_data) ==
    IF i > Len(concept_names) THEN field_data
    ELSE IF concept_names[i] \notin DOMAIN us_gaap
         THEN ResolveFromNoBreak(us_gaap, concept_names, i + 1, quarter, field_data)
    ELSE LET units == us_gaap[concept_names[i]]
             unit_key == UnitKey(units)
         IN  IF unit_key = "None"
             THEN ResolveFromNoBreak(us_gaap, concept_names, i + 1, quarter, field_data)
             ELSE ResolveFromNoBreak(us_gaap, concept_names, i + 1, quarter,
                                     Deduplicate(units[unit_key], quarter, field_data))

\* mutant of ResolveFrom: the loop left (break) at a concept without a
\* recognized unit
RECURSIVE ResolveFromBreakOnUnit(_, _, _, _, _)
ResolveFromBreakOnUnit(us_gaap, concept_names, i, quarter, field_data) ==
    IF i > Len(concept_names) THEN field_data
    ELSE IF concept_names[i] \notin DOMAIN us_gaap
         THEN ResolveFromBreakOnUnit(us_gaap, concept_names, i + 1, quarter, field_data)
    ELSE LET units == us_gaap[concept_names[i]]
             unit_key == UnitKey(units)
         IN  IF unit_key = "None" THEN field_data
             ELSE LET fd == Deduplicate(units[unit_key], quarter, field_data)
                  IN  IF fd # EmptyMap THEN fd
                      ELSE ResolveFromBreakOnUnit(us_gaap, concept_names, i + 1,
                                                  quarter, fd)

\* the loop over concept_names from position i, with field_data so far
RECURSIVE ResolveFrom(_, _, _, _, _)
ResolveFrom(us_gaap, concept_names, i, quarter, field_data) ==
    IF i > Len(concept_names) THEN field_data
    ELSE IF concept_names[i] \notin DOMAIN us_gaap
         THEN ResolveFrom(us_gaap, concept_names, i + 1, quarter, field_data)
    ELSE LET units == us_gaap[concept_names[i]]
             unit_key == UnitKey(units)
         IN  IF unit_key = "None"
             THEN ResolveFrom(us_gaap, concept_names, i + 1, quarter, field_data)
             ELSE LET fd == Deduplicate(units[unit_key], quarter, field_data)
                  IN  IF fd # EmptyMap THEN fd
                      ELSE ResolveFrom(us_gaap, concept_names, i + 1, quarter, fd)

ResolveField(us_gaap, concept_names, quarter) ==
    ResolveFrom(us_gaap, concept_names, 1, quarter, EmptyMap)

\* mutant of ExtractFinancialItems: a field is stored only if it has data
ExtractFinancialItemsNonEmpty(facts, concept_mapping, quarter) ==
    SelectSeq([i \in 1..Len(concept_mapping) |->
                  [name |-> concept_mapping[i].name,
                   data |-> ResolveField(UsGaap(facts), concept_mapping[i].concepts,
                                         quarter)]],
              LAMBDA it : it.data # EmptyMap)

\* mutant of ExtractFinancialItems: field_data created once, before the loop
\* over the fields, and so carried from a field to the next
RECURSIVE ExtractShared(_, _, _, _, _)
ExtractShared(us_gaap, concept_mapping, i, quarter, field_data) ==
    IF i > Len(concept_mapping) THEN <<>>
    ELSE LET fd == ResolveFrom(us_gaap, concept_mapping[i].concepts, 1, quarter,
                               field_data)
         IN  <<[name |-> concept_mapping[i].name, data |-> fd]>>
             \o ExtractShared(us_gaap, concept_mapping, i + 1, quarter, fd)

ExtractFinancialItemsShared(facts, concept_mapping, quarter) ==
    ExtractShared(UsGaap(facts), concept_mapping, 1, quarter, EmptyMap)

\* the result dict, as the sequence of its (key, value) pairs in insertion order
ExtractFinancialItems(facts, concept_mapping, quarter) ==
    [i \in 1..Len(concept_mapping) |->
        [name |-> concept_mapping[i].name,
         data |-> ResolveField(UsGaap(facts), concept_mapping[i].concepts, quarter)]]

(***************************************************************************)
(* The statement assembly of get_financial_statement                       *)
(***************************************************************************)
\* all_dates: the union of the keys of every field's series
AllDates(its) == UNION {DOMAIN its[i].data : i \in 1..Len(its)}

\* mutant of Sorted: the dates in descending order
RECURSIVE SortedDescending(_)
SortedDescending(dates) ==
    IF dates = {} THEN <<>>
    ELSE LET greatest == CHOOSE d \in dates : \A e \in dates \ {d} : StrLess(e, d)
         IN  <<greatest>> \o SortedDescending(dates \ {greatest})

\* sorted(all_dates): ascending in Python's str order
RECURSIVE Sorted(_)
Sorted(dates) ==
    IF dates = {} THEN <<>>
    ELSE LET least == CHOOSE d \in dates : \A e \in dates \ {d} : StrLess(d, e)
         IN  <<least>> \o Sorted(dates \ {least})

\* pd.PeriodIndex(..., freq="Q" if quarter else "Y") of one ISO date:
\* the calendar year, or the calendar year and quarter
Period(date, quarter) ==
    IF quarter THEN <<date[1], ((date[2] - 1) \div 3) + 1>> ELSE <<date[1]>>

\* mutant of KeptPositions: the last occurrence of a label kept (keep="last")
KeptPositionsLast(labels) ==
    SelectSeq([j \in 1..Len(labels) |-> j],
              LAMBDA j : \A k \in (j + 1)..Len(labels) : labels[k] # labels[j])

\* the positions df.loc[:, ~df.columns.duplicated()] keeps: first occurrences
KeptPositions(labels) ==
    SelectSeq([j \in 1..Len(labels) |-> j],
              LAMBDA j : \A k \in 1..(j - 1) : labels[k] # labels[j])

\* pd.DataFrame(columns=[error_code]): no rows, one column
ErrorFrame(error_code) ==
    [index |-> <<>>, columns |-> <<error_code>>, period_index |-> FALSE,
     values |-> <<>>]

NoDataCode(fallback) ==
    IF fallback THEN "EDGAR NO DATA FOUND FALLBACK" ELSE "EDGAR NO DATA FOUND"

\* mutant of NoCikCode: the fallback flag ignored
NoCikCodePlain(fallback) == "EDGAR NO CIK FOUND"

NoCikCode(fallback) ==
    IF fallback THEN "EDGAR NO CIK FOUND FALLBACK" ELSE "EDGAR NO CIK FOUND"

\* mutant of BuildFrame: a missing value left as a marker (-1), not 0
BuildFrameNoFill(its, quarter, fallback) ==
    IF AllDates(its) = {} THEN ErrorFrame(NoDataCode(fallback))
    ELSE LET sorted_dates == Sorted(AllDates(its))
             labels == [j \in 1..Len(sorted_dates) |-> Period(sorted_dates[j], quarter)]
             kept == KeptPositions(labels)
         IN  [index |-> [i \in 1..Len(its) |-> its[i].name],
              columns |-> [c \in 1..Len(kept) |-> labels[kept[c]]],
              period_index |-> TRUE,
              values |-> [i \in 1..Len(its) |->
                            [c \in 1..Len(kept) |->
                                Get(its[i].data, sorted_dates[kept[c]], -1)]]]

\* mutant of BuildFrame: rows only for the fields that have data
BuildFrameDataRows(its, quarter, fallback) ==
    IF AllDates(its) = {} THEN ErrorFrame(NoDataCode(fallback))
    ELSE LET sorted_dates == Sorted(AllDates(its))
             labels == [j \in 1..Len(sorted_dates) |-> Period(sorted_dates[j], quarter)]
             kept == KeptPositions(labels)
             rows == SelectSeq(its, LAMBDA it : it.data # EmptyMap)
         IN  [index |-> [i \in 1..Len(rows) |-> rows[i].name],
              columns |-> [c \in 1..Len(kept) |-> labels[kept[c]]],
              period_index |-> TRUE,
              values |-> [i \in 1..Len(rows) |->
                            [c \in 1..Len(kept) |->
                                Get(rows[i].data, sorted_dates[kept[c]], 0)]]]

\* pd.PeriodIndex(df.columns, ...) raises DateParseError (a ValueError) when a
\* column label is no date; on the texts of the model, those strptime rejects
PeriodIndexRaises(its) == \E d \in AllDates(its) : ~Parses(d)

\* mutant of BuildFrame: no early return when all_dates is empty
BuildFrameNoGuard(its, quarter, fallback) ==
    LET sorted_dates == Sorted(AllDates(its))
        labels == [j \in 1..Len(sorted_dates) |-> Period(sorted_dates[j], quarter)]
        kept == KeptPositions(labels)
    IN  [index |-> [i \in 1..Len(its) |-> its[i].name],
         columns |-> [c \in 1..Len(kept) |-> labels[kept[c]]],
         period_index |-> TRUE,
         values |-> [i \in 1..Len(its) |->
                       [c \in 1..Len(kept) |->
                           Get(its[i].data, sorted_dates[kept[c]], 0)]]]

\* "Build DataFrame" to the end of get_financial_statement
BuildFrame(its, quarter, fallback) ==
    IF AllDates(its) = {} THEN ErrorFrame(NoDataCode(fallback))
    ELSE LET sorted_dates == Sorted(AllDates(its))
             labels == [j \in 1..Len(sorted_dates) |-> Period(sorted_dates[j], quarter)]
             kept == KeptPositions(labels)
         IN  [index |-> [i \in 1..Len(its) |-> its[i].name],
              columns |-> [c \in 1..Len(kept) |-> labels[kept[c]]],
              period_index |-> TRUE,
              values |-> [i \in 1..Len(its) |->
                            [c \in 1..Len(kept) |->
                                Get(its[i].data, sorted_dates[kept[c]], 0)]]]

(***************************************************************************)
(* The same resolution and assembly with every series kept as Python keeps *)
(* a dict: the list of its (key, value) pairs in insertion order.          *)
(***************************************************************************)
Range(s) == {s[j] : j \in DOMAIN s}

\* the keys of filing_entries in insertion order: the end dates of the
\* surviving entries, each at its first occurrence
RECURSIVE FirstSeen(_, _, _)
FirstSeen(entries, quarter, seen) ==
    IF entries = <<>> THEN seen
    ELSE LET e == Head(entries)
         IN  IF Survives(e, quarter) /\ e.end \notin Range(seen)
             THEN FirstSeen(Tail(entries), quarter, Append(seen, e.end))
             ELSE FirstSeen(Tail(entries), quarter, seen)

\* the keys of field_data in insertion order, from position i of the
\* concept loop on
RECURSIVE ResolveKeys(_, _, _, _)
ResolveKeys(us_gaap, concept_names, i, quarter) ==
    IF i > Len(concept_names) THEN <<>>
    ELSE IF concept_names[i] \notin DOMAIN us_gaap
         THEN ResolveKeys(us_gaap, concept_names, i + 1, quarter)
    ELSE LET units == us_gaap[concept_names[i]]
             unit_key == UnitKey(units)
         IN  IF unit_key = "None"
             THEN ResolveKeys(us_gaap, concept_names, i + 1, quarter)
             ELSE LET keys == FirstSeen(units[unit_key], quarter, <<>>)
                  IN  IF keys # <<>> THEN keys
                      ELSE ResolveKeys(us_gaap, concept_names, i + 1, quarter)

\* the result dict of _extract_financial_items, every series in insertion order
ItemsInOrder(facts, concept_mapping, quarter) ==
    [i \in 1..Len(concept_mapping) |->
        LET keys == ResolveKeys(UsGaap(facts), concept_mapping[i].concepts, 1, quarter)
            field_data == ResolveField(UsGaap(facts), concept_mapping[i].concepts,
                                       quarter)
        IN  [name |-> concept_mapping[i].name,
             data |-> [j \in 1..Len(keys) |-> <<keys[j], field_data[keys[j]]>>]]]

\* dates.keys() and dates_values.get(date, default) on such a series
DictKeys(pairs) == {pairs[j][1] : j \in DOMAIN pairs}

DictGet(pairs, k, default) ==
    IF k \in DictKeys(pairs)
    THEN pairs[CHOOSE j \in DOMAIN pairs : pairs[j][1] = k][2]
    ELSE default

\* the dates of every series, each once, in the order the loop over
\* items.values() meets them
RECURSIVE InsertionOrder(_, _)
InsertionOrder(its, seen) ==
    IF its = <<>> THEN seen
    ELSE LET keys == [j \in DOMAIN Head(its).data |-> Head(its).data[j][1]]
         IN  InsertionOrder(Tail(its),
                            seen \o SelectSeq(keys, LAMBDA d : d \notin Range(seen)))

\* mutant of AssembleInOrder: the columns in insertion order, not sorted
AssembleUnsorted(its, quarter, fallback) ==
    LET all_dates == UNION {DictKeys(its[i].data) : i \in 1..Len(its)}
    IN  IF all_dates = {} THEN ErrorFrame(NoDataCode(fallback))
        ELSE LET sorted_dates == InsertionOrder(its, <<>>)
                 labels == [j \in 1..Len(sorted_dates) |->
                               Period(sorted_dates[j], quarter)]
                 kept == KeptPositions(labels)
             IN  [index |-> [i \in 1..Len(its) |-> its[i].name],
                  columns |-> [c \in 1..Len(kept) |-> labels[kept[c]]],
                  period_index |-> TRUE,
                  values |-> [i \in 1..Len(its) |->
                                [c \in 1..Len(kept) |->
                                    DictGet(its[i].data, sorted_dates[kept[c]], 0)]]]

\* "Build DataFrame" to the end of get_financial_statement, on such items
AssembleInOrder(its, quarter, fallback) ==
    LET all_dates == UNION {DictKeys(its[i].data) : i \in 1..Len(its)}
    IN  IF all_dates = {} THEN ErrorFrame(NoDataCode(fallback))
        ELSE LET sorted_dates == Sorted(all_dates)
                 labels == [j \in 1..Len(sorted_dates) |->
                               Period(sorted_dates[j], quarter)]
                 kept == KeptPositions(labels)
             IN  [index |-> [i \in 1..Len(its) |-> its[i].name],
                  columns |-> [c \in 1..Len(kept) |-> labels[kept[c]]],
                  period_index |-> TRUE,
                  values |-> [i \in 1..Len(its) |->
                                [c \in 1..Len(kept) |->
                                    DictGet(its[i].data, sorted_dates[kept[c]], 0)]]]

(***************************************************************************)
(* The SEC endpoints and the cached lookups                                *)
(***************************************************************************)
\* the ways a fetch ends: HTTP 200 with a JSON body, another status, a
\* requests.RequestException, or HTTP 200 with a body response.json()
\* raises ValueError on
Responses == {"200", "404", "RequestException", "ValueError"}

\* company_tickers.json as served
TICKERS_JSON == << [ticker |-> "AAPL", cik_str |-> 320193] >>

Tickers == {"AAPL", "aapl", "INVALIDXYZ"}

\* str.upper on the tickers of the model
Upper(ticker) == IF ticker = "aapl" THEN "AAPL" ELSE ticker

\* str(cik_str).zfill(10) on the CIKs of the model
Zfill10(cik_str) == IF cik_str = 320193 THEN "0000320193" ELSE "0000000000"

\* the loop filling _ticker_cik_cache from the served JSON
RECURSIVE FillCache(_, _, _)
FillCache(cache, data, i) ==
    IF i > Len(data) THEN cache
    ELSE FillCache(Put(cache, Upper(data[i].ticker), Zfill10(data[i].cik_str)),
                   data, i + 1)

\* mutant of CikForTicker: the mapping fetched whenever the ticker is not a
\* key of the cache (no `if not _ticker_cik_cache`)
CikForTickerRefetch(cache, ticker, response) ==
    LET ticker_upper == Upper(ticker)
    IN  IF ticker_upper \in DOMAIN cache
        THEN [value |-> cache[ticker_upper], cache |-> cache, requests |-> 0]
        ELSE IF response # "200"
        THEN [value |-> "None", cache |-> cache, requests |-> 1]
        ELSE LET filled == FillCache(cache, TICKERS_JSON, 1)
             IN  [value |-> Get(filled, ticker_upper, "None"),
                  cache |-> filled, requests |-> 1]

\* get_cik_for_ticker: the value returned, the cache after it and the
\* number of HTTP requests it issued
CikForTicker(cache, ticker, response) ==
    LET ticker_upper == Upper(ticker)
    IN  IF ticker_upper \in DOMAIN cache
        THEN [value |-> cache[ticker_upper], cache |-> cache, requests |-> 0]
        ELSE IF cache # EmptyMap
        THEN [value |-> "None", cache |-> cache, requests |-> 0]
        ELSE IF response # "200"
        THEN [value |-> "None", cache |-> cache, requests |-> 1]
        ELSE LET filled == FillCache(cache, TICKERS_JSON, 1)
             IN  [value |-> Get(filled, ticker_upper, "None"),
                  cache |-> filled, requests |-> 1]

\* mutant of CompanyFacts: the cache never consulted
CompanyFactsNoLookup(cache, cik, response, served) ==
    IF response # "200"
    THEN [value |-> EmptyMap, found |-> FALSE, cache |-> cache, requests |-> 1]
    ELSE [value |-> served, found |-> TRUE,
          cache |-> Put(cache, cik, served), requests |-> 1]

\* mutant of CompanyFacts: an empty dict returned, not None, when the fetch
\* fails
CompanyFactsEmptyOnFailure(cache, cik, response, served) ==
    IF cik \in DOMAIN cache
    THEN [value |-> cache[cik], found |-> TRUE, cache |-> cache, requests |-> 0]
    ELSE IF response # "200"
    THEN [value |-> EmptyMap, found |-> TRUE, cache |-> cache, requests |-> 1]
    ELSE [value |-> served, found |-> TRUE,
          cache |-> Put(cache, cik, served), requests |-> 1]

\* mutant of CompanyFacts: a failed fetch remembered as an empty entry
CompanyFactsCachesFailure(cache, cik, response, served) ==
    IF cik \in DOMAIN cache
    THEN [value |-> cache[cik], found |-> cache[cik] # EmptyMap,
          cache |-> cache, requests |-> 0]
    ELSE IF response # "200"
    THEN [value |-> EmptyMap, found |-> FALSE,
          cache |-> Put(cache, cik, EmptyMap), requests |-> 1]
    ELSE [value |-> served, found |-> TRUE,
          cache |-> Put(cache, cik, served), requests |-> 1]

\* get_company_facts: likewise; served is the JSON body of a 200 response
CompanyFacts(cache, cik, response, served) ==
    IF cik \in DOMAIN cache
    THEN [value |-> cache[cik], found |-> TRUE, cache |-> cache, requests |-> 0]
    ELSE IF response # "200"
    THEN [value |-> EmptyMap, found |-> FALSE, cache |-> cache, requests |-> 1]
    ELSE [value |-> served, found |-> TRUE,
          cache |-> Put(cache, cik, served), requests |-> 1]

(***************************************************************************)
(* State machine                                                           *)
(***************************************************************************)
NoFrame == [index |-> <<>>, columns |-> <<>>, period_index |-> FALSE, values |-> <<>>]

NoCall ==
    [kind |-> "none", ticker |-> "", statement |-> "", quarter |-> FALSE,
     fallback |-> FALSE, frame |-> NoFrame]

\* the threads calling into the module
Threads == {1, 2}

\* the 0.1 seconds between two requests, in ticks
Interval == 2

\* _last_request_time = 0.0 at import, the clock long past the epoch, the
\* lock free and no thread inside _rate_limited_get
InitRate ==
    /\ now = Interval
    /\ _last_request_time = 0
    /\ _rate_lock = 0
    /\ pc = [t \in Threads |-> "idle"]
    /\ delay = [t \in Threads |-> 0]
    /\ wake = [t \in Threads |-> 0]
    /\ sent = <<>>

Init ==
    /\ sec_facts = EmptyMap
    /\ _ticker_cik_cache = EmptyMap
    /\ _company_facts_cache = EmptyMap
    /\ http_requests = 0
    /\ items = <<>>
    /\ ret = NoCall
    /\ InitRate

\* What a published observation can look like.  A start date comes with the
\* first filing of the two 2022 periods; an amendment (10-K/A) comes without
\* a start date and is filed last.
Forms == {"10-K", "10-Q", "10-K/A"}
EndDates == {<<2022, 10, 1>>, <<2022, 12, 31>>, <<2023, 12, 30>>}
StartDates == {<<>>, <<2022, 1, 1>>}
FiledDates == {<<2024, 1, 15>>, <<2024, 2, 20>>}
Shapes ==
    {o \in [form : Forms, end : EndDates, start : StartDates, filed : FiledDates] :
        /\ o.start # <<>> => (o.end[1] = 2022 /\ o.filed = <<2024, 1, 15>>)
        /\ o.form = "10-K/A" => (o.start = <<>> /\ o.filed = <<2024, 2, 20>>)}

\* the (concept, unit) lists an observation can be published in
Slots ==
    << <<"Revenues", "USD">>, <<"Revenues", "shares">>,
       <<"RevenueFromContractWithCustomerExcludingAssessedTax", "USD">>,
       <<"NetIncomeLoss", "USD">>,
       <<"CashAndCashEquivalentsAtCarryingValue", "USD">> >>

RECURSIVE SumLens(_, _)
SumLens(f, keys) ==
    IF keys = {} THEN 0
    ELSE LET k == CHOOSE x \in keys : TRUE
         IN  Len(f[k]) + SumLens(f, keys \ {k})

RECURSIVE CountObs(_, _)
CountObs(us_gaap, concepts) ==
    IF concepts = {} THEN 0
    ELSE LET c == CHOOSE x \in concepts : TRUE
         IN  SumLens(us_gaap[c], DOMAIN us_gaap[c]) + CountObs(us_gaap, concepts \ {c})

NumObs(facts) == CountObs(UsGaap(facts), DOMAIN UsGaap(facts))

\* The SEC publishes one more observation in the n-th slot, before the
\* document is fetched.  Each observation carries a value of its own.
Publish(n, shape) ==
    /\ NumObs(sec_facts) < MaxObs
    /\ _company_facts_cache = EmptyMap
    /\ ret = NoCall
    /\ LET concept == Slots[n][1]
           unit == Slots[n][2]
           us_gaap == UsGaap(sec_facts)
           units == Get(us_gaap, concept, EmptyMap)
           entries == Get(units, unit, <<>>)
           entry == [form |-> shape.form, end |-> shape.end, start |-> shape.start,
                     filed |-> shape.filed,
                     val |-> 1000 * n + 100 * (Len(entries) + 1)]
       IN  sec_facts' = Put(sec_facts, "us-gaap",
                            Put(us_gaap, concept,
                                Put(units, unit, Append(entries, entry))))
    /\ UNCHANGED <<_ticker_cik_cache, _company_facts_cache, http_requests, items, ret,
                        rate_vars>>

\* mutant of GetFinancialStatement: the statement argument validated after
\* the lookups
GetFinancialStatementLateCheck(ticker, statement, quarter, fallback, r1, r2) ==
    LET cik == CikForTicker(_ticker_cik_cache, ticker, r1)
        facts == CompanyFacts(_company_facts_cache, cik.value, r2, sec_facts)
        valid == statement \in Statements
        its == IF valid
               THEN ExtractFinancialItems(facts.value, ConceptMapping(statement), quarter)
               ELSE <<>>
    IN  /\ _ticker_cik_cache' = cik.cache
        /\ _company_facts_cache' = facts.cache
        /\ http_requests' = http_requests + cik.requests + facts.requests
        /\ items' = its
        /\ ret' = [kind |-> IF valid THEN "frame" ELSE "ValueError",
                   ticker |-> ticker, statement |-> statement, quarter |-> quarter,
                   fallback |-> fallback,
                   frame |-> IF valid THEN BuildFrame(its, quarter, fallback)
                             ELSE NoFrame]
        /\ UNCHANGED <<sec_facts, rate_vars>>

\* the facts with every observation list cut down to the entries that
\* survive the filter
FilteredFacts(facts, quarter) ==
    LET us_gaap == UsGaap(facts)
    IN  IF us_gaap = EmptyMap THEN facts
        ELSE Put(facts, "us-gaap",
                 [c \in DOMAIN us_gaap |->
                     [u \in DOMAIN us_gaap[c] |->
                         SelectSeq(us_gaap[c][u], LAMBDA e : Survives(e, quarter))]])

\* mutant of GetFinancialStatement: the extraction filters the observation
\* lists of the facts object in place, the cached object with them
GetFinancialStatementFiltersInPlace(ticker, statement, quarter, fallback, r1, r2) ==
    LET call == [kind |-> "frame", ticker |-> ticker, statement |-> statement,
                 quarter |-> quarter, fallback |-> fallback, frame |-> NoFrame]
        cik == CikForTicker(_ticker_cik_cache, ticker, r1)
        facts == CompanyFacts(_company_facts_cache, cik.value, r2, sec_facts)
    IN
    IF statement \notin Statements
    THEN /\ ret' = [call EXCEPT !.kind = "ValueError"]
         /\ items' = <<>>
         /\ UNCHANGED <<sec_facts, _ticker_cik_cache, _company_facts_cache,
                        http_requests,
                        rate_vars>>
    ELSE IF cik.value = "None"
    THEN /\ _ticker_cik_cache' = cik.cache
         /\ http_requests' = http_requests + cik.requests
         /\ ret' = [call EXCEPT !.frame = ErrorFrame(NoCikCode(fallback))]
         /\ items' = <<>>
         /\ UNCHANGED <<sec_facts, _company_facts_cache,
                        rate_vars>>
    ELSE IF ~facts.found
    THEN /\ _ticker_cik_cache' = cik.cache
         /\ _company_facts_cache' = facts.cache
         /\ http_requests' = http_requests + cik.requests + facts.requests
         /\ ret' = [call EXCEPT !.frame = ErrorFrame(NoDataCode(fallback))]
         /\ items' = <<>>
         /\ UNCHANGED <<sec_facts, rate_vars>>
    ELSE
    LET its == ExtractFinancialItems(facts.value, ConceptMapping(statement), quarter)
    IN   /\ _ticker_cik_cache' = cik.cache
         /\ _company_facts_cache' =
               Put(facts.cache, cik.value, FilteredFacts(facts.value, quarter))
         /\ items' = its
         /\ http_requests' = http_requests + cik.requests + facts.requests
         /\ ret' = IF PeriodIndexRaises(its)
                   THEN [call EXCEPT !.kind = "DateParseError"]
                   ELSE [call EXCEPT !.frame = BuildFrame(its, quarter, fallback)]
         /\ UNCHANGED <<sec_facts, rate_vars>>

\* get_financial_statement(ticker, statement, quarter, fallback), with the
\* outcomes r1, r2 of the HTTP requests it may issue
GetFinancialStatement(ticker, statement, quarter, fallback, r1, r2) ==
    LET call == [kind |-> "frame", ticker |-> ticker, statement |-> statement,
                 quarter |-> quarter, fallback |-> fallback, frame |-> NoFrame]
    IN
    IF statement \notin Statements
    THEN /\ ret' = [call EXCEPT !.kind = "ValueError"]
         /\ items' = <<>>
         /\ UNCHANGED <<sec_facts, _ticker_cik_cache, _company_facts_cache,
                        http_requests,
                        rate_vars>>
    ELSE
    LET cik == CikForTicker(_ticker_cik_cache, ticker, r1)
    IN
    IF cik.value = "None"
    THEN /\ _ticker_cik_cache' = cik.cache
         /\ http_requests' = http_requests + cik.requests
         /\ ret' = [call EXCEPT !.frame = ErrorFrame(NoCikCode(fallback))]
         /\ items' = <<>>
         /\ UNCHANGED <<sec_facts, _company_facts_cache,
                        rate_vars>>
    ELSE
    LET facts == CompanyFacts(_company_facts_cache, cik.value, r2, sec_facts)
    IN
    IF ~facts.found
    THEN /\ _ticker_cik_cache' = cik.cache
         /\ _company_facts_cache' = facts.cache
         /\ http_requests' = http_requests + cik.requests + facts.requests
         /\ ret' = [call EXCEPT !.frame = ErrorFrame(NoDataCode(fallback))]
         /\ items' = <<>>
         /\ UNCHANGED <<sec_facts, rate_vars>>
    ELSE
    LET its == ExtractFinancialItems(facts.value, ConceptMapping(statement), quarter)
    IN   /\ _ticker_cik_cache' = cik.cache
         /\ _company_facts_cache' = facts.cache
         /\ items' = its
         /\ http_requests' = http_requests + cik.requests + facts.requests
         /\ ret' = IF PeriodIndexRaises(its)
                   THEN [call EXCEPT !.kind = "DateParseError"]
                   ELSE [call EXCEPT !.frame = BuildFrame(its, quarter, fallback)]
         /\ UNCHANGED <<sec_facts, rate_vars>>

\* The extraction and assembly over every served document, the SEC
\* answering every request.
Next ==
    \/ \E n \in 1..Len(Slots), shape \in Shapes : Publish(n, shape)
    \/ \E statement \in Statements \cup {"invalid"},
          quarter \in BOOLEAN, fallback \in BOOLEAN :
            GetFinancialStatement("aapl", statement, quarter, fallback, "200", "200")

Spec == Init /\ [][Next]_vars

(***************************************************************************)
(* The same calls over documents with incomplete or malformed              *)
(* observations: a key that is missing reads as the default of .get, the   *)
(* empty text; 2022-13-45 and 2022-02-30 are no calendar dates; EUR is no   *)
(* recognized unit.                                                        *)
(***************************************************************************)
RawForms == {"10-K", "10-Q", ""}
RawEndDates == {<<>>, <<2022, 12, 31>>, <<2022, 13, 45>>}
RawStartDates == {<<>>, <<2022, 1, 1>>, <<2022, 10, 1>>, <<2022, 2, 30>>}
RawFiledDates == {<<>>, <<2024, 1, 15>>, <<2024, 2, 20>>}
RawShapes ==
    {o \in [form : RawForms, end : RawEndDates, start : RawStartDates,
            filed : RawFiledDates] :
        /\ o.form # "10-K" => (o.start = <<>> /\ o.filed = <<2024, 1, 15>>)
        /\ o.filed = <<>> => o.start = <<>>
        /\ o.filed = <<2024, 2, 20>> => o.start \in {<<>>, <<2022, 2, 30>>}}

RawSlots ==
    << <<"Revenues", "EUR">>, <<"Revenues", "USD">>,
       <<"RevenueFromContractWithCustomerExcludingAssessedTax", "USD">> >>

\* The SEC publishes one more observation, of any of these shapes.
PublishRaw(n, shape) ==
    /\ NumObs(sec_facts) < MaxObs
    /\ _company_facts_cache = EmptyMap
    /\ ret = NoCall
    /\ LET concept == RawSlots[n][1]
           unit == RawSlots[n][2]
           us_gaap == UsGaap(sec_facts)
           units == Get(us_gaap, concept, EmptyMap)
           entries == Get(units, unit, <<>>)
           entry == [form |-> shape.form, end |-> shape.end, start |-> shape.start,
                     filed |-> shape.filed,
                     val |-> 1000 * n + 100 * (Len(entries) + 1)]
       IN  sec_facts' = Put(sec_facts, "us-gaap",
                            Put(us_gaap, concept,
                                Put(units, unit, Append(entries, entry))))
    /\ UNCHANGED <<_ticker_cik_cache, _company_facts_cache, http_requests, items, ret,
                        rate_vars>>

NextRaw ==
    \/ \E n \in 1..Len(RawSlots), shape \in RawShapes : PublishRaw(n, shape)
    \/ \E quarter \in BOOLEAN, fallback \in BOOLEAN :
            GetFinancialStatement("aapl", "income", quarter, fallback, "200", "200")

SpecRaw == Init /\ [][NextRaw]_vars

(***************************************************************************)
(* Documents around the 350-day boundary, with observations that have no   *)
(* filed date or no value.                                                 *)
(***************************************************************************)
\* start dates 350 days, 349 days and three years before the end date
\* 2022-12-31, and one after it
EdgeStartDates ==
    {<<>>, <<2022, 1, 15>>, <<2022, 1, 16>>, <<2020, 1, 1>>, <<2023, 6, 1>>}

EdgeShapes ==
    {sh \in [form : {"10-K", "10-Q"}, end : {<<2022, 12, 31>>},
             start : EdgeStartDates, filed : RawFiledDates, has_val : BOOLEAN] :
        sh.form = "10-Q" => sh.start = <<>>}

\* the SEC adds one observation of Revenues in USD, with or without the
\* key val
PublishEdge(shape) ==
    /\ NumObs(sec_facts) < MaxObs
    /\ _company_facts_cache = EmptyMap
    /\ ret = NoCall
    /\ LET us_gaap == UsGaap(sec_facts)
           units == Get(us_gaap, "Revenues", EmptyMap)
           entries == Get(units, "USD", <<>>)
           dated == [form |-> shape.form, end |-> shape.end, start |-> shape.start,
                     filed |-> shape.filed]
           entry == IF shape.has_val
                    THEN [form |-> shape.form, end |-> shape.end,
                          start |-> shape.start, filed |-> shape.filed,
                          val |-> 1000 + 100 * (Len(entries) + 1)]
                    ELSE dated
       IN  sec_facts' = Put(sec_facts, "us-gaap",
                            Put(us_gaap, "Revenues",
                                Put(units, "USD", Append(entries, entry))))
    /\ UNCHANGED <<_ticker_cik_cache, _company_facts_cache, http_requests, items, ret,
                   rate_vars>>

NextEdge ==
    \/ \E shape \in EdgeShapes : PublishEdge(shape)
    \/ \E quarter \in BOOLEAN, fallback \in BOOLEAN :
            GetFinancialStatement("aapl", "income", quarter, fallback, "200", "200")

SpecEdge == Init /\ [][NextEdge]_vars

(***************************************************************************)
(* The module's functions called in any order, with every outcome of the   *)
(* HTTP requests, while the SEC replaces the document it serves.           *)
(***************************************************************************)
MaxRequests == 4   \* HTTP requests issued in a run

Ciks == {"0000320193", "0000789019"}

Observation(end_date, val) ==
    [form |-> "10-K", end |-> end_date, start |-> <<>>, filed |-> <<2024, 1, 15>>,
     val |-> val]

Document(entries) ==
    Put(EmptyMap, "us-gaap",
        Put(EmptyMap, "Revenues", Put(EmptyMap, "USD", entries)))

\* the bodies the companyfacts endpoint can answer a 200 with
ServedDocs ==
    {EmptyMap,
     Document(<<Observation(<<2022, 12, 31>>, 2100)>>),
     Document(<<Observation(<<2022, 12, 31>>, 2100),
                Observation(<<2023, 12, 30>>, 2200)>>)}

InitCache ==
    /\ sec_facts \in ServedDocs
    /\ _ticker_cik_cache = EmptyMap
    /\ _company_facts_cache = EmptyMap
    /\ http_requests = 0
    /\ items = <<>>
    /\ ret = NoCall
    /\ InitRate

\* the SEC serves another document from now on
Republish(doc) ==
    /\ doc # sec_facts
    /\ sec_facts' = doc
    /\ UNCHANGED <<_ticker_cik_cache, _company_facts_cache, http_requests, items, ret,
                        rate_vars>>

\* get_cik_for_ticker(ticker), the mapping request, if issued, ending as
\* response
GetCikForTicker(ticker, response) ==
    LET cik == CikForTicker(_ticker_cik_cache, ticker, response)
    IN  /\ http_requests + cik.requests <= MaxRequests
        /\ _ticker_cik_cache' = cik.cache
        /\ http_requests' = http_requests + cik.requests
        /\ ret' = [kind |-> "cik", ticker |-> ticker, value |-> cik.value,
                   requests |-> cik.requests,
                   response |-> IF cik.requests = 0 THEN "none" ELSE response]
        /\ items' = <<>>
        /\ UNCHANGED <<sec_facts, _company_facts_cache,
                        rate_vars>>

\* get_company_facts(cik), the request, if issued, ending as response
GetCompanyFacts(cik, response) ==
    LET facts == CompanyFacts(_company_facts_cache, cik, response, sec_facts)
    IN  /\ http_requests + facts.requests <= MaxRequests
        /\ _company_facts_cache' = facts.cache
        /\ http_requests' = http_requests + facts.requests
        /\ ret' = [kind |-> "facts", cik |-> cik, found |-> facts.found,
                   value |-> facts.value, requests |-> facts.requests,
                   response |-> IF facts.requests = 0 THEN "none" ELSE response]
        /\ items' = <<>>
        /\ UNCHANGED <<sec_facts, _ticker_cik_cache,
                        rate_vars>>

\* mutant of ClearCache: only the ticker mapping emptied
ClearCacheTickersOnly ==
    /\ _ticker_cik_cache' = EmptyMap
    /\ ret' = [kind |-> "clear"]
    /\ items' = <<>>
    /\ UNCHANGED <<sec_facts, _company_facts_cache, http_requests,
                        rate_vars>>

\* clear_cache()
ClearCache ==
    /\ _ticker_cik_cache' = EmptyMap
    /\ _company_facts_cache' = EmptyMap
    /\ ret' = [kind |-> "clear"]
    /\ items' = <<>>
    /\ UNCHANGED <<sec_facts, http_requests,
                        rate_vars>>

NextCache ==
    \/ \E doc \in ServedDocs : Republish(doc)
    \/ \E ticker \in Tickers, response \in Responses :
            GetCikForTicker(ticker, response)
    \/ \E cik \in Ciks, response \in Responses : GetCompanyFacts(cik, response)
    \/ ClearCache
    \/ \E ticker \in Tickers, fallback \in BOOLEAN,
          r1 \in Responses, r2 \in Responses :
            /\ http_requests + 2 <= MaxRequests
            /\ GetFinancialStatement(ticker, "income", FALSE, fallback, r1, r2)

SpecCache == InitCache /\ [][NextCache]_vars

(***************************************************************************)
(* _rate_limited_get called from several threads, one action per step of   *)
(* a thread, the clock advancing between any two steps.                    *)
(***************************************************************************)
data_vars == <<sec_facts, _ticker_cik_cache, _company_facts_cache, items, ret>>

\* the calls of _rate_limited_get begun so far
Begun == Len(sent) + Cardinality({t \in Threads : pc[t] # "idle"})

\* a thread calls _rate_limited_get and reaches `with _rate_lock`
RateLimitedGet(t) ==
    /\ pc[t] = "idle"
    /\ Begun < MaxCalls
    /\ pc' = [pc EXCEPT ![t] = "lock"]
    /\ UNCHANGED <<data_vars, http_requests, now, _last_request_time, _rate_lock,
                   delay, wake, sent>>

\* `with _rate_lock`: the lock acquired once it is free
AcquireLock(t) ==
    /\ pc[t] = "lock"
    /\ _rate_lock = 0
    /\ _rate_lock' = t
    /\ pc' = [pc EXCEPT ![t] = "elapsed"]
    /\ UNCHANGED <<data_vars, http_requests, now, _last_request_time, delay, wake, sent>>

\* elapsed = time.time() - _last_request_time; if elapsed < 0.1
Elapsed(t) ==
    /\ pc[t] = "elapsed"
    /\ LET elapsed == now - _last_request_time
       IN  IF elapsed < Interval
           THEN /\ delay' = [delay EXCEPT ![t] = Interval - elapsed]
                /\ pc' = [pc EXCEPT ![t] = "sleep"]
           ELSE /\ pc' = [pc EXCEPT ![t] = "stamp"]
                /\ UNCHANGED delay
    /\ UNCHANGED <<data_vars, http_requests, now, _last_request_time, _rate_lock,
                   wake, sent>>

\* time.sleep(0.1 - elapsed) entered
Sleep(t) ==
    /\ pc[t] = "sleep"
    /\ wake' = [wake EXCEPT ![t] = now + delay[t]]
    /\ delay' = [delay EXCEPT ![t] = 0]
    /\ pc' = [pc EXCEPT ![t] = "sleeping"]
    /\ UNCHANGED <<data_vars, http_requests, now, _last_request_time, _rate_lock, sent>>

\* time.sleep returns, no sooner than after the time asked for
SleepReturns(t) ==
    /\ pc[t] = "sleeping"
    /\ now >= wake[t]
    /\ wake' = [wake EXCEPT ![t] = 0]
    /\ pc' = [pc EXCEPT ![t] = "stamp"]
    /\ UNCHANGED <<data_vars, http_requests, now, _last_request_time, _rate_lock,
                   delay, sent>>

\* _last_request_time = time.time(), and the end of the with block
\* releases the lock
Stamp(t) ==
    /\ pc[t] = "stamp"
    /\ _last_request_time' = now
    /\ _rate_lock' = 0
    /\ pc' = [pc EXCEPT ![t] = "get"]
    /\ UNCHANGED <<data_vars, http_requests, now, delay, wake, sent>>

\* requests.get(url, ...), outside the with block
RequestsGet(t) ==
    /\ pc[t] = "get"
    /\ sent' = Append(sent, now)
    /\ http_requests' = http_requests + 1
    /\ pc' = [pc EXCEPT ![t] = "idle"]
    /\ UNCHANGED <<data_vars, now, _last_request_time, _rate_lock, delay, wake>>

\* the clock advances
Tick ==
    /\ now < MaxTime
    /\ now' = now + 1
    /\ UNCHANGED <<data_vars, http_requests, _last_request_time, _rate_lock, pc,
                   delay, wake, sent>>

NextRate ==
    \/ \E t \in Threads : RateLimitedGet(t)
    \/ \E t \in Threads : AcquireLock(t)
    \/ \E t \in Threads : Elapsed(t)
    \/ \E t \in Threads : Sleep(t)
    \/ \E t \in Threads : SleepReturns(t)
    \/ \E t \in Threads : Stamp(t)
    \/ \E t \in Threads : RequestsGet(t)
    \/ Tick

SpecRate == Init /\ [][NextRate]_vars

(***************************************************************************)
(* Vocabulary of the properties.  Every published observation carries a    *)
(* value of its own, so a value found in a series names the observation    *)
(* it was taken from.                                                      *)
(***************************************************************************)
Doc == UsGaap(sec_facts)

\* every observation of the served document, with its place
AllObs ==
    UNION { UNION { { [concept |-> c, unit |-> u, pos |-> k, e |-> Doc[c][u][k]] :
                        k \in 1..Len(Doc[c][u]) } :
                    u \in DOMAIN Doc[c] } :
            c \in DOMAIN Doc }

Src(v) == CHOOSE o \in AllObs : o.e.val = v

\* the last call ran _extract_financial_items (on the served document)
Extracted == ret.kind = "frame" /\ items # <<>>

\* the last call returned an assembled statement table
IsTable == ret.kind = "frame" /\ ret.frame.period_index

Fields == 1..Len(items)

Synonyms(i) == ConceptMapping(ret.statement)[i].concepts

WantedForm == IF ret.quarter THEN "10-Q" ELSE "10-K"

\* the label the fixed priority order selects among those a concept has
Preferred(labels) ==
    IF "USD" \in labels THEN "USD"
    ELSE IF "USD/shares" \in labels THEN "USD/shares"
    ELSE IF "shares" \in labels THEN "shares"
    ELSE IF "pure" \in labels THEN "pure"
    ELSE "None"

\* an annual observation of less than 350 days
ShortAnnual(e) ==
    /\ e.form = "10-K"
    /\ Parses(e.start) /\ Parses(e.end)
    /\ Ordinal(e.end) - Ordinal(e.start) < 350

\* the observations of a concept that take part in the resolution of the
\* last call: right unit, right form, an end date, not a short annual one
Taking(concept) ==
    {o \in AllObs :
        /\ o.concept = concept
        /\ o.unit = Preferred(DOMAIN Doc[concept])
        /\ o.e.form = WantedForm
        /\ o.e.end # <<>>
        /\ (ret.quarter \/ ~ShortAnnual(o.e))}

\* the fragment a synonym yields is non-empty
Yields(concept) == Taking(concept) # {}

\* field i was resolved from its k-th synonym alone
ResolvedFrom(i, k) ==
    /\ Yields(Synonyms(i)[k])
    /\ \A j \in 1..(k - 1) : ~Yields(Synonyms(i)[j])
    /\ DOMAIN items[i].data = {o.e.end : o \in Taking(Synonyms(i)[k])}
    /\ \A d \in DOMAIN items[i].data :
          \E o \in Taking(Synonyms(i)[k]) : o.e.end = d /\ o.e.val = items[i].data[d]

\* C1: every field is resolved from exactly one synonym, the first in list
\* order whose fragment is non-empty, and its series is that fragment alone
\* (no date or value of a later synonym); with no such synonym it is empty.
C1_FirstSynonymWins ==
    Extracted =>
        \A i \in Fields :
            IF \E k \in 1..Len(Synonyms(i)) : Yields(Synonyms(i)[k])
            THEN \E k \in 1..Len(Synonyms(i)) : ResolvedFrom(i, k)
            ELSE items[i].data = EmptyMap

\* a field won by its first synonym while a later synonym has data for a
\* period the winner lacks
C1_Witness ==
    /\ Extracted
    /\ \E i \in Fields :
          /\ Len(Synonyms(i)) > 1
          /\ ResolvedFrom(i, 1)
          /\ \E o \in Taking(Synonyms(i)[2]) : o.e.end \notin DOMAIN items[i].data

\* the surviving observations that share the list and the end date of o
Group(o) ==
    {g \in Taking(o.concept) : g.e.end = o.e.end}

\* C2: the value resolved for an end date is the value of an observation of
\* its group with the greatest filed date, whatever the order of the list.
C2_LatestFiledWins ==
    Extracted =>
        \A i \in Fields : \A d \in DOMAIN items[i].data :
            LET o == Src(items[i].data[d])
            IN  /\ o.e.end = d
                /\ \A g \in Group(o) : ~StrLess(o.e.filed, g.e.filed)

\* the winner of a group was filed after an observation listed before it
C2_Witness ==
    /\ Extracted
    /\ \E i \in Fields : \E d \in DOMAIN items[i].data :
          LET o == Src(items[i].data[d])
          IN  \E g \in Group(o) : g.pos < o.pos /\ StrLess(g.e.filed, o.e.filed)

\* C3: every (end date, value) of a series comes from an observation whose
\* form is exactly "10-Q" in a quarterly call and exactly "10-K" otherwise.
C3_ExactForm ==
    Extracted =>
        \A i \in Fields : \A d \in DOMAIN items[i].data :
            \E o \in AllObs :
                /\ o.e.val = items[i].data[d]
                /\ o.e.end = d
                /\ o.e.form = (IF ret.quarter THEN "10-Q" ELSE "10-K")

\* a quarterly series resolved from a list that also holds a 10-K entry, or
\* an annual one from a list that also holds an amendment
C3_Witness ==
    /\ Extracted
    /\ \E i \in Fields : \E d \in DOMAIN items[i].data :
          LET o == Src(items[i].data[d])
          IN  \E x \in AllObs :
                /\ x.concept = o.concept /\ x.unit = o.unit
                /\ x.e.form = (IF ret.quarter THEN "10-K" ELSE "10-K/A")

\* C4: in an annual call a 10-K observation of parseable dates and less than
\* 350 days contributes neither its value nor, by itself, its end date.
C4_ShortAnnualExcluded ==
    (Extracted /\ ~ret.quarter) =>
        \A i \in Fields : \A d \in DOMAIN items[i].data :
            LET o == Src(items[i].data[d])
            IN  o.e.end = d /\ ~ShortAnnual(o.e)

\* an annual field resolved from a list whose only observation of some
\* period is a short one: the period is absent from the series
C4_Witness ==
    /\ Extracted /\ ~ret.quarter
    /\ \E i \in Fields : \E d \in DOMAIN items[i].data :
          LET o == Src(items[i].data[d])
          IN  \E x \in AllObs :
                /\ x.concept = o.concept /\ x.unit = o.unit
                /\ ShortAnnual(x.e)
                /\ x.e.end \notin DOMAIN items[i].data

\* C5: only the observations under the first label present in the order
\* USD, USD/shares, shares, pure are used, also when that unit yields
\* nothing and another unit would.
C5_UnitPriority ==
    Extracted =>
        \A i \in Fields : \A d \in DOMAIN items[i].data :
            LET o == Src(items[i].data[d])
            IN  o.unit = Preferred(DOMAIN Doc[o.concept])

\* a concept with two units whose USD list yields nothing for the call
\* while its shares list holds an observation of the wanted form
C5_Witness ==
    /\ Extracted
    /\ \E i \in Fields :
          LET c == Synonyms(i)[1]
          IN  /\ c \in DOMAIN Doc
              /\ DOMAIN Doc[c] = {"USD", "shares"}
              /\ ~Yields(c)
              /\ \E o \in AllObs : /\ o.concept = c /\ o.unit = "shares"
                                   /\ o.e.form = WantedForm
              /\ items[i].data = EmptyMap

\* C6: a field none of whose synonyms yields data is still a key of the
\* result, with an empty series, and its row of the table is all zeros.
C6_EmptyFieldKept ==
    Extracted =>
        /\ Len(items) = Len(ConceptMapping(ret.statement))
        /\ \A i \in Fields :
              /\ items[i].name = ConceptMapping(ret.statement)[i].name
              /\ (\A k \in 1..Len(Synonyms(i)) : ~Yields(Synonyms(i)[k])) =>
                    /\ items[i].data = EmptyMap
                    /\ IsTable =>
                          /\ ret.frame.index[i] = items[i].name
                          /\ ret.frame.columns # <<>>
                          /\ \A c \in 1..Len(ret.frame.columns) :
                                ret.frame.values[i][c] = 0

\* a table with a row for a field whose only synonym present in the
\* document was filtered out
C6_Witness ==
    /\ Extracted /\ IsTable
    /\ \E i \in Fields :
          /\ \E k \in 1..Len(Synonyms(i)) : Synonyms(i)[k] \in DOMAIN Doc
          /\ \A k \in 1..Len(Synonyms(i)) : ~Yields(Synonyms(i)[k])
          /\ ret.frame.index[i] = items[i].name

\* C7: a statement argument outside balance, income, cashflow raises
\* ValueError and returns no frame, before any lookup: the two caches are
\* left as they were and no HTTP request is issued.
C7_InvalidStatementFailsFast ==
    [][ (ret' # ret /\ ret'.statement \notin {"balance", "income", "cashflow"}) =>
            /\ ret'.kind = "ValueError"
            /\ ret'.frame = NoFrame
            /\ items' = <<>>
            /\ _ticker_cik_cache' = _ticker_cik_cache
            /\ _company_facts_cache' = _company_facts_cache
            /\ http_requests' = http_requests ]_vars

\* the invalid call made with both caches filled by an earlier call
C7_Witness ==
    /\ ret.kind = "ValueError"
    /\ ret.statement = "invalid"
    /\ _ticker_cik_cache # EmptyMap
    /\ _company_facts_cache # EmptyMap
    /\ http_requests = 2

\* the labeled period of an end date in the last call
Label(d) ==
    IF ~ret.quarter THEN <<d[1]>>
    ELSE IF d[2] \in {1, 2, 3} THEN <<d[1], 1>>
    ELSE IF d[2] \in {4, 5, 6} THEN <<d[1], 2>>
    ELSE IF d[2] \in {7, 8, 9} THEN <<d[1], 3>>
    ELSE <<d[1], 4>>

\* the end dates that are a key of at least one field's series
SeriesDates == UNION {DOMAIN items[i].data : i \in Fields}

\* the value of field i at an end date, 0 when it has none
Cell(i, d) == IF d \in DOMAIN items[i].data THEN items[i].data[d] ELSE 0

\* column c of the table holds, for every field, its value at end date d
ColumnOf(c, d) ==
    /\ ret.frame.columns[c] = Label(d)
    /\ \A i \in Fields : ret.frame.values[i][c] = Cell(i, d)

\* d is the first end date, in sorted order, of its labeled period
FirstOfPeriod(d) ==
    \A e \in SeriesDates : Label(e) = Label(d) => ~StrLess(e, d)

Rectangular ==
    /\ Len(ret.frame.values) = Len(items)
    /\ \A i \in Fields : Len(ret.frame.values[i]) = Len(ret.frame.columns)

\* C8 as stated: every end date of some series is a column for every field,
\* each cell being the field's value for that date, or 0.
C8_EveryDateIsColumn ==
    (Extracted /\ IsTable) =>
        /\ Rectangular
        /\ \A d \in SeriesDates : \E c \in 1..Len(ret.frame.columns) : ColumnOf(c, d)

\* C8 as amended: the table is rectangular over the labeled periods; the
\* first end date of every period is a column for every field, each cell
\* being the field's value for that date or exactly 0, and there is no
\* other column.
C8_FirstDateOfPeriodIsColumn ==
    (Extracted /\ IsTable) =>
        /\ Rectangular
        /\ \A d \in SeriesDates :
              FirstOfPeriod(d) => \E c \in 1..Len(ret.frame.columns) : ColumnOf(c, d)
        /\ \A c \in 1..Len(ret.frame.columns) :
              \E d \in SeriesDates : FirstOfPeriod(d) /\ ColumnOf(c, d)

\* a table of two columns in which a field has a value in one column and
\* the zero fill in the other
C8_Witness ==
    /\ Extracted /\ IsTable
    /\ Len(ret.frame.columns) = 2
    /\ \E i \in Fields :
          /\ ret.frame.values[i][1] = 0
          /\ ret.frame.values[i][2] # 0

\* C9: the rows of a returned statement table are the fields of the
\* requested statement's dictionary, each once, in declaration order.
C9_RowsInDeclarationOrder ==
    IsTable =>
        LET mapping == ConceptMapping(ret.statement)
        IN  /\ Len(ret.frame.index) = Len(mapping)
            /\ \A i \in 1..Len(mapping) : ret.frame.index[i] = mapping[i].name
            /\ Len(ret.frame.values) = Len(mapping)

\* a table in which a field without data comes before a field with data
C9_Witness ==
    /\ Extracted /\ IsTable
    /\ \E i \in Fields : \E j \in Fields :
          /\ i < j
          /\ items[i].data = EmptyMap
          /\ items[j].data # EmptyMap
          /\ ret.frame.index[i] = items[i].name
          /\ ret.frame.index[j] = items[j].name

\* a period before another
PeriodBefore(a, b) ==
    \/ a[1] < b[1]
    \/ a[1] = b[1] /\ Len(a) = 2 /\ a[2] < b[2]

\* C10: whenever some series has a date, a table is returned whose columns
\* are in strictly ascending period order (no period twice).
C10_ColumnsAscending ==
    /\ (Extracted /\ SeriesDates # {}) => IsTable
    /\ IsTable =>
          /\ ret.frame.columns # <<>>
          /\ \A a \in 1..Len(ret.frame.columns) : \A b \in 1..Len(ret.frame.columns) :
                a < b => PeriodBefore(ret.frame.columns[a], ret.frame.columns[b])

\* a table of two columns whose later period was published first, in the
\* same list as the earlier one
C10_Witness ==
    /\ Extracted /\ IsTable
    /\ Len(ret.frame.columns) = 2
    /\ \E o \in AllObs : \E x \in AllObs :
          /\ o.concept = x.concept /\ o.unit = x.unit /\ o.pos < x.pos
          /\ StrLess(x.e.end, o.e.end)
          /\ \E i \in Fields : {o.e.end, x.e.end} \subseteq DOMAIN items[i].data

\* the columns of the table labeled with period p
ColumnsOf(p) == {c \in 1..Len(ret.frame.columns) : ret.frame.columns[c] = p}

\* C11: when distinct end dates share a labeled period the table has one
\* column for the period, holding for every row the value at the first of
\* these dates in sorted order (0 where the row has none); no value of a
\* later date of the period is in the table.
C11_DuplicatePeriodKeepsFirst ==
    (Extracted /\ IsTable) =>
        \A d \in SeriesDates : \A e \in SeriesDates :
            (Label(d) = Label(e) /\ StrLess(d, e) /\ FirstOfPeriod(d)) =>
                /\ Cardinality(ColumnsOf(Label(d))) = 1
                /\ \A c \in ColumnsOf(Label(d)) : ColumnOf(c, d)
                /\ \A i \in Fields :
                      e \in DOMAIN items[i].data =>
                          \A c \in 1..Len(ret.frame.columns) :
                              ret.frame.values[i][c] # items[i].data[e]

\* two end dates of one period, the later one held by a row that has no
\* value at the first: the row's cell of the kept column is the zero fill
C11_Witness ==
    /\ Extracted /\ IsTable
    /\ \E d \in SeriesDates : \E e \in SeriesDates :
          /\ Label(d) = Label(e) /\ StrLess(d, e)
          /\ \E i \in Fields :
                /\ e \in DOMAIN items[i].data
                /\ d \notin DOMAIN items[i].data
                /\ \A c \in ColumnsOf(Label(d)) : ret.frame.values[i][c] = 0

\* the raw fact set the last call resolved
FactsRead == _company_facts_cache[_ticker_cik_cache["AAPL"]]

\* resolution run again on it, every series in its insertion order
Rerun == ItemsInOrder(FactsRead, ConceptMapping(ret.statement), ret.quarter)

\* the orders in which the keys of a series can have been inserted
Perms(pairs) == {t \in [DOMAIN pairs -> Range(pairs)] : Range(t) = Range(pairs)}

\* the same field -> series mapping under every insertion order of the keys
Reorderings(its) ==
    LET choices == {f \in [1..Len(its) -> UNION {Perms(its[i].data) : i \in 1..Len(its)}] :
                       \A i \in 1..Len(its) : f[i] \in Perms(its[i].data)}
    IN  {[i \in 1..Len(its) |-> [name |-> its[i].name, data |-> f[i]]] : f \in choices}

\* C12: resolution run again on the same raw fact set, statement and quarter
\* flag gives the same series, and assembly of these series gives the table
\* the call returned (rows, columns, cells), under every insertion order of
\* the keys of every series.
C12_AssemblyDeterministic ==
    Extracted =>
        /\ Len(Rerun) = Len(items)
        /\ \A i \in Fields :
              /\ Rerun[i].name = items[i].name
              /\ DictKeys(Rerun[i].data) = DOMAIN items[i].data
              /\ \A d \in DOMAIN items[i].data :
                    DictGet(Rerun[i].data, d, 0) = items[i].data[d]
        /\ \A its \in Reorderings(Rerun) :
              AssembleInOrder(its, ret.quarter, ret.fallback) = ret.frame

\* a table of two columns from a series whose later end date was inserted
\* first
C12_Witness ==
    /\ Extracted /\ IsTable
    /\ Len(ret.frame.columns) = 2
    /\ \E i \in Fields :
          /\ Len(Rerun[i].data) = 2
          /\ StrLess(Rerun[i].data[2][1], Rerun[i].data[1][1])
          /\ ret.frame.values[i][1] = Rerun[i].data[2][2]
          /\ ret.frame.values[i][2] = Rerun[i].data[1][2]

\* C13: when every field resolves empty the call returns the no-data signal,
\* a frame without rows whose only column is "EDGAR NO DATA FOUND", with
\* " FALLBACK" appended exactly when fallback is true; no returned frame has
\* field rows and zero columns.
C13_NoDataSignal ==
    /\ (Extracted /\ SeriesDates = {}) =>
          /\ ret.frame.index = <<>>
          /\ ret.frame.values = <<>>
          /\ ~ret.frame.period_index
          /\ ret.frame.columns =
                <<IF ret.fallback THEN "EDGAR NO DATA FOUND FALLBACK"
                  ELSE "EDGAR NO DATA FOUND">>
    /\ ret.kind = "frame" => ~(ret.frame.index # <<>> /\ ret.frame.columns = <<>>)

\* a fallback call on a document that has observations of the statement's
\* concepts, none of which survives the filter
C13_Witness ==
    /\ Extracted /\ ret.fallback
    /\ SeriesDates = {}
    /\ \E i \in Fields : \E o \in AllObs : o.concept = Synonyms(i)[1]
    /\ ret.frame.columns = <<"EDGAR NO DATA FOUND FALLBACK">>

\* the last call ran _extract_financial_items, whatever the assembly did
Resolved == ret.kind \in {"frame", "DateParseError"} /\ items # <<>>

\* C14 as stated: whatever the raw fact set holds, a call with a valid
\* statement ends with a frame, the table or the no-data signal; it never
\* raises.
C14_NeverRaises ==
    (ret.kind # "none" /\ ret.statement \in Statements) => ret.kind = "frame"

\* a 10-K observation the duration step cannot measure: no start date, or a
\* start or end date that is no YYYY-MM-DD calendar date
Lenient(e) ==
    /\ e.form = "10-K"
    /\ e.end # <<>>
    /\ (e.start = <<>> \/ ~Parses(e.start) \/ ~Parses(e.end))

\* observation o is in the list the resolution of field i reads
ReadFor(i, o) ==
    \E k \in 1..Len(Synonyms(i)) :
        /\ Synonyms(i)[k] = o.concept
        /\ o.unit = Preferred(DOMAIN Doc[o.concept])
        /\ \A j \in 1..(k - 1) : ~Yields(Synonyms(i)[j])

\* C15: in an annual call such an observation survives the filter, so its
\* end date is a key of the series, and it takes part in the deduplication
\* of that end date as any full-year observation does: the value kept was
\* filed no earlier, and is its own when it was filed after all others.
C15_LenientDatesSurvive ==
    (Resolved /\ ~ret.quarter) =>
        \A i \in Fields : \A o \in AllObs :
            (Lenient(o.e) /\ ReadFor(i, o)) =>
                /\ o.e.end \in DOMAIN items[i].data
                /\ LET w == Src(items[i].data[o.e.end])
                   IN  /\ w \in Group(o)
                       /\ ~StrLess(w.e.filed, o.e.filed)
                /\ (\A g \in Group(o) \ {o} : StrLess(g.e.filed, o.e.filed)) =>
                      items[i].data[o.e.end] = o.e.val

\* an annual value taken from an observation whose start date does not
\* parse, filed after a full-year observation of the same end date
C15_Witness ==
    /\ Resolved /\ ~ret.quarter
    /\ \E i \in Fields : \E d \in DOMAIN items[i].data :
          LET o == Src(items[i].data[d])
          IN  /\ o.e.start # <<>> /\ ~Parses(o.e.start)
              /\ \E g \in Group(o) :
                    /\ Parses(g.e.start) /\ Parses(g.e.end)
                    /\ Ordinal(g.e.end) - Ordinal(g.e.start) >= 350
                    /\ StrLess(g.e.filed, o.e.filed)

\* a synonym that contributes nothing: absent from the raw fact set, or
\* without any of the four recognized unit labels, or with no observation
\* left by the filter
Skipped(concept) ==
    \/ concept \notin DOMAIN Doc
    \/ DOMAIN Doc[concept] \cap {"USD", "USD/shares", "shares", "pure"} = {}
    \/ ~Yields(concept)

\* C16: a call on a fetched document always gets through the resolution;
\* each field is resolved from the synonym that follows the skipped ones, or
\* is empty when all are skipped; an error, if any, comes from a date held
\* by a series, never from a skipped synonym.
C16_SkippedSynonymFallsThrough ==
    ret.kind # "none" =>
        /\ Resolved
        /\ Len(items) = Len(ConceptMapping(ret.statement))
        /\ \A i \in Fields :
              /\ \A k \in 1..Len(Synonyms(i)) :
                    ((\A j \in 1..(k - 1) : Skipped(Synonyms(i)[j]))
                        /\ ~Skipped(Synonyms(i)[k])) => ResolvedFrom(i, k)
              /\ (\A k \in 1..Len(Synonyms(i)) : Skipped(Synonyms(i)[k])) =>
                    items[i].data = EmptyMap
        /\ ret.kind = "DateParseError" => \E d \in SeriesDates : ~Parses(d)

\* a field resolved from its second synonym, the first being present with
\* an unrecognized unit only, under which it has an observation of the
\* wanted form
C16_Witness ==
    /\ Resolved
    /\ \E i \in Fields :
          /\ Len(Synonyms(i)) > 1
          /\ Synonyms(i)[1] \in DOMAIN Doc
          /\ DOMAIN Doc[Synonyms(i)[1]] = {"EUR"}
          /\ \E o \in AllObs :
                /\ o.concept = Synonyms(i)[1] /\ o.e.form = WantedForm
                /\ o.e.end # <<>>
          /\ ResolvedFrom(i, 2)

\* a step in which the call named kind returns (the served document is
\* not replaced in it)
Returns(kind) == ret'.kind = kind /\ sec_facts' = sec_facts

\* C17: the lookup that fills the empty ticker cache issues one request;
\* from then on, while the cache is filled (until clear_cache empties it),
\* every get_cik_for_ticker call, for a known or an unknown ticker, alone
\* or inside get_financial_statement, issues no mapping request, leaves the
\* cache as it is and answers with the cached CIK or None.
C17_MappingFetchedOnce ==
    [][ /\ (Returns("cik") /\ _ticker_cik_cache # EmptyMap) =>
              /\ http_requests' = http_requests
              /\ ret'.requests = 0
              /\ _ticker_cik_cache' = _ticker_cik_cache
              /\ ret'.value =
                    (IF Upper(ret'.ticker) \in DOMAIN _ticker_cik_cache
                     THEN _ticker_cik_cache[Upper(ret'.ticker)] ELSE "None")
        /\ (Returns("cik") /\ _ticker_cik_cache = EmptyMap
                /\ _ticker_cik_cache' # EmptyMap) =>
              http_requests' = http_requests + 1
        /\ (Returns("frame") /\ _ticker_cik_cache # EmptyMap) =>
              /\ _ticker_cik_cache' = _ticker_cik_cache
              /\ http_requests' - http_requests =
                    (IF /\ Upper(ret'.ticker) \in DOMAIN _ticker_cik_cache
                        /\ _ticker_cik_cache[Upper(ret'.ticker)]
                              \notin DOMAIN _company_facts_cache
                     THEN 1 ELSE 0) ]_vars

\* an unknown ticker looked up from the filled cache: None without a
\* request, the one mapping request of the run being an earlier lookup's
C17_Witness ==
    /\ ret.kind = "cik"
    /\ ret.ticker = "INVALIDXYZ"
    /\ ret.value = "None"
    /\ ret.requests = 0
    /\ _ticker_cik_cache # EmptyMap
    /\ http_requests = 1

\* C18: a get_company_facts call for a CIK that is a key of the facts cache
\* (a fetch for it succeeded since the last clear_cache) issues no request
\* and returns the cached facts, whatever the SEC serves by now; a call for
\* a CIK that is not cached issues a request of its own.
C18_FactsCachedPerCik ==
    [][ Returns("facts") =>
            IF ret'.cik \in DOMAIN _company_facts_cache
            THEN /\ http_requests' = http_requests
                 /\ ret'.requests = 0
                 /\ ret'.found
                 /\ ret'.value = _company_facts_cache[ret'.cik]
                 /\ _company_facts_cache' = _company_facts_cache
            ELSE /\ http_requests' = http_requests + 1
                 /\ ret'.requests = 1 ]_vars

\* both CIKs fetched once each, and a later call answered with the cached
\* facts although the SEC serves another document by now
C18_Witness ==
    /\ ret.kind = "facts"
    /\ ret.requests = 0
    /\ ret.found
    /\ ret.value # sec_facts
    /\ DOMAIN _company_facts_cache = Ciks
    /\ http_requests = 2

\* C19: a get_financial_statement call whose ticker is not resolved (it is
\* no key of the ticker cache after the call) returns a frame without rows
\* whose only column is "EDGAR NO CIK FOUND", with " FALLBACK" appended
\* exactly when fallback is true; it issues no company-facts request (at
\* most the mapping request), leaves the facts cache and extracts nothing.
C19_NoCikFrame ==
    [][ (Returns("frame") /\ Upper(ret'.ticker) \notin DOMAIN _ticker_cik_cache') =>
            /\ ret'.frame.index = <<>>
            /\ ret'.frame.values = <<>>
            /\ ret'.frame.columns =
                  <<IF ret'.fallback THEN "EDGAR NO CIK FOUND FALLBACK"
                    ELSE "EDGAR NO CIK FOUND">>
            /\ _company_facts_cache' = _company_facts_cache
            /\ http_requests' - http_requests =
                  (IF _ticker_cik_cache = EmptyMap THEN 1 ELSE 0)
            /\ items' = <<>> ]_vars

\* a fallback call for an unknown ticker that fetched the mapping and
\* nothing else
C19_Witness ==
    /\ ret.kind = "frame"
    /\ ret.ticker = "INVALIDXYZ"
    /\ ret.fallback
    /\ ret.frame.columns = <<"EDGAR NO CIK FOUND FALLBACK">>
    /\ _ticker_cik_cache # EmptyMap
    /\ _company_facts_cache = EmptyMap
    /\ http_requests = 1

\* C20: a get_financial_statement call whose ticker is resolved and whose
\* company-facts fetch fails (the CIK is no key of the facts cache after the
\* call) returns a frame without rows whose only column is "EDGAR NO DATA
\* FOUND", with " FALLBACK" appended exactly when fallback is true, and
\* runs no extraction.
C20_FactsFetchFailedFrame ==
    [][ (/\ Returns("frame")
         /\ Upper(ret'.ticker) \in DOMAIN _ticker_cik_cache'
         /\ _ticker_cik_cache'[Upper(ret'.ticker)] \notin DOMAIN _company_facts_cache') =>
            /\ ret'.frame.index = <<>>
            /\ ret'.frame.values = <<>>
            /\ ret'.frame.columns =
                  <<IF ret'.fallback THEN "EDGAR NO DATA FOUND FALLBACK"
                    ELSE "EDGAR NO DATA FOUND">>
            /\ items' = <<>> ]_vars

\* the known ticker resolved by a mapping request, the facts request
\* failed, while the SEC serves a document with data
C20_Witness ==
    /\ ret.kind = "frame"
    /\ ret.ticker = "aapl"
    /\ ~ret.fallback
    /\ ret.frame.columns = <<"EDGAR NO DATA FOUND">>
    /\ items = <<>>
    /\ "AAPL" \in DOMAIN _ticker_cik_cache
    /\ _company_facts_cache = EmptyMap
    /\ UsGaap(sec_facts) # EmptyMap
    /\ http_requests = 2

\* C21: among the surviving observations of one end date that share the
\* greatest filed date, the value kept is that of the one that comes first
\* in the input list.
C21_TieKeepsFirstListed ==
    Resolved =>
        \A i \in Fields : \A d \in DOMAIN items[i].data :
            LET o == Src(items[i].data[d])
            IN  /\ o \in Taking(o.concept)
                /\ o.e.end = d
                /\ \A g \in Group(o) : g.e.filed = o.e.filed => o.pos <= g.pos

\* a value kept from the first of two surviving observations of the same
\* end date and the same filed date
C21_Witness ==
    /\ Resolved
    /\ \E i \in Fields : \E d \in DOMAIN items[i].data :
          LET o == Src(items[i].data[d])
          IN  \E g \in Group(o) : g.e.filed = o.e.filed /\ o.pos < g.pos

\* a further field, whose synonyms are raw concepts the document can hold
OtherFields ==
    {[name |-> "Other", concepts |-> c] :
        c \in { <<"Revenues">>,
                <<"RevenueFromContractWithCustomerExcludingAssessedTax">>,
                <<"Revenues", "RevenueFromContractWithCustomerExcludingAssessedTax">>,
                <<"RevenueFromContractWithCustomerExcludingAssessedTax", "Revenues">>,
                <<"CashAndCashEquivalentsAtCarryingValue", "NetIncomeLoss">> }}

\* the fields of a dictionary at the positions of S, in every order
Selections(mapping, S) ==
    {[k \in 1..Cardinality(S) |-> mapping[t[k]]] :
        t \in {u \in [1..Cardinality(S) -> S] : Range(u) = S}}

\* concept dictionaries that differ from the one of the last call in their
\* other fields: fields removed, fields reordered, a field added before or
\* after, which may share raw concepts with the fields of the dictionary
Variants(mapping) ==
    UNION {Selections(mapping, S) : S \in (SUBSET (1..Len(mapping))) \ {{}}}
    \cup {<<f>> \o mapping : f \in OtherFields}
    \cup {mapping \o <<f>> : f \in OtherFields}

\* C22: the series resolved for a field is the same under every such
\* dictionary: it depends on the raw fact set, the field's own synonym list
\* and the quarter flag only.
C22_FieldsIndependent ==
    Resolved =>
        \A mapping \in Variants(ConceptMapping(ret.statement)) :
            LET its == ExtractFinancialItems(FactsRead, mapping, ret.quarter)
            IN  /\ Len(its) = Len(mapping)
                /\ \A j \in 1..Len(mapping) : \A i \in Fields :
                      (mapping[j].name = items[i].name) =>
                          its[j].data = items[i].data

\* a field with data, resolved the same when a field that takes its data
\* from the same raw concept is resolved before it
C22_Witness ==
    /\ Resolved
    /\ \E i \in Fields : \E f \in OtherFields :
          LET mapping == <<f>> \o ConceptMapping(ret.statement)
              its == ExtractFinancialItems(FactsRead, mapping, ret.quarter)
          IN  /\ items[i].data # EmptyMap
              /\ its[1].data = items[i].data
              /\ its[i + 1].data = items[i].data

\* C23: the facts held in the cache after any sequence of requests are the
\* facts as served, every observation list in its order, and the result of
\* the last request is the result of the same request on the facts as
\* served.
C23_ExtractionLeavesFacts ==
    Extracted =>
        /\ FactsRead = sec_facts
        /\ items = ExtractFinancialItems(sec_facts, ConceptMapping(ret.statement),
                                         ret.quarter)
        /\ ret.frame = BuildFrame(ExtractFinancialItems(sec_facts,
                                                        ConceptMapping(ret.statement),
                                                        ret.quarter),
                                  ret.quarter, ret.fallback)

\* a quarterly result with data from a list that also holds a 10-K entry,
\* which an annual request reads
C23_Witness ==
    /\ Extracted /\ ret.quarter /\ IsTable
    /\ \E i \in Fields : \E d \in DOMAIN items[i].data :
          LET o == Src(items[i].data[d])
          IN  \E x \in AllObs :
                /\ x.concept = o.concept /\ x.unit = o.unit
                /\ x.e.form = "10-K" /\ x.pos < o.pos

\* start dates of every kind: missing, year-to-date, three-month, no date,
\* later than the end date
StartChoices == {<<>>, <<2022, 1, 1>>, <<2022, 10, 1>>, <<2022, 2, 30>>, <<2024, 6, 1>>}

\* the facts with the start date of every observation replaced: s1 for the
\* first entry of each list, s2 for the others
ReplaceStarts(facts, s1, s2) ==
    LET us_gaap == UsGaap(facts)
    IN  IF us_gaap = EmptyMap THEN facts
        ELSE Put(facts, "us-gaap",
                 [c \in DOMAIN us_gaap |->
                     [u \in DOMAIN us_gaap[c] |->
                         [k \in 1..Len(us_gaap[c][u]) |->
                             [us_gaap[c][u][k] EXCEPT
                                 !.start = IF k = 1 THEN s1 ELSE s2]]]])

\* C24: the result of a quarterly request is unchanged when the start dates
\* of the observations are replaced by any others, and every 10-Q
\* observation with an end date, in the list read for a field, has its end
\* date as a key of the series whatever its start date.
C24_QuarterlyIgnoresStart ==
    (Extracted /\ ret.quarter) =>
        /\ \A s1 \in StartChoices : \A s2 \in StartChoices :
              ExtractFinancialItems(ReplaceStarts(FactsRead, s1, s2),
                                    ConceptMapping(ret.statement), TRUE) = items
        /\ \A i \in Fields : \A o \in AllObs :
              (o.e.form = "10-Q" /\ o.e.end # <<>> /\ ReadFor(i, o)) =>
                  o.e.end \in DOMAIN items[i].data

\* a quarterly value taken from a 10-Q observation of 273 days, filed after
\* or listed before an observation of the same end date without start date
C24_Witness ==
    /\ Extracted /\ ret.quarter
    /\ \E i \in Fields : \E d \in DOMAIN items[i].data :
          LET o == Src(items[i].data[d])
          IN  /\ o.e.start = <<2022, 1, 1>> /\ o.e.end = <<2022, 10, 1>>
              /\ \E g \in Group(o) : g # o /\ g.e.start = <<>>

\* the ways a fetch fails
Failures == Responses \ {"200"}

\* C25: a fetch that ends with a status other than 200, a request error or
\* a JSON error makes get_cik_for_ticker and get_company_facts return None
\* and leaves both caches as they were, and the same call made next issues
\* a new request.
C25_FailedFetchNotCached ==
    [][/\ (Returns("cik") /\ ret'.response \in Failures) =>
              /\ ret'.value = "None"
              /\ _ticker_cik_cache' = _ticker_cik_cache
              /\ _company_facts_cache' = _company_facts_cache
       /\ (Returns("facts") /\ ret'.response \in Failures) =>
              /\ ~ret'.found
              /\ _company_facts_cache' = _company_facts_cache
              /\ _ticker_cik_cache' = _ticker_cik_cache
       /\ (ret.kind = "cik" /\ ret.response \in Failures /\ Returns("cik")) =>
              /\ ret'.requests = 1
              /\ http_requests' = http_requests + 1
       /\ (/\ ret.kind = "facts" /\ ret.response \in Failures
           /\ Returns("facts") /\ ret'.cik = ret.cik) =>
              /\ ret'.requests = 1
              /\ http_requests' = http_requests + 1
      ]_vars

\* a fetch of the facts of one CIK has just failed while those of the other
\* CIK are in the cache, and the failed CIK is still not a key
C25_Witness ==
    /\ ret.kind = "facts" /\ ret.response \in Failures
    /\ _company_facts_cache # EmptyMap
    /\ ret.cik \notin DOMAIN _company_facts_cache
    /\ http_requests >= 2

\* C26: clear_cache leaves both caches empty; the get_cik_for_ticker and
\* the get_company_facts called next, for any ticker and any CIK, each
\* issue a new request, and what they return is None or what that request
\* was answered with, never a value held before the clearing.
C26_ClearEmptiesBoth ==
    [][/\ Returns("clear") =>
              /\ _ticker_cik_cache' = EmptyMap
              /\ _company_facts_cache' = EmptyMap
       /\ (ret.kind = "clear" /\ Returns("cik")) =>
              /\ ret'.requests = 1
              /\ http_requests' = http_requests + 1
              /\ ret'.value = IF ret'.response = "200"
                              THEN Get(FillCache(EmptyMap, TICKERS_JSON, 1),
                                       Upper(ret'.ticker), "None")
                              ELSE "None"
       /\ (ret.kind = "clear" /\ Returns("facts")) =>
              /\ ret'.requests = 1
              /\ http_requests' = http_requests + 1
              /\ ret'.found = (ret'.response = "200")
              /\ ret'.found => ret'.value = sec_facts
      ]_vars

\* clear_cache has just run after requests were issued, and both caches
\* are empty
C26_Witness ==
    /\ ret.kind = "clear"
    /\ http_requests >= 2
    /\ _ticker_cik_cache = EmptyMap
    /\ _company_facts_cache = EmptyMap

\* C27: under any interleaving of the threads calling _rate_limited_get, any
\* two requests are issued at least 0.1 seconds apart.
C27_RequestsSpaced ==
    \A i \in 1..Len(sent) : \A j \in 1..Len(sent) :
        i < j => sent[j] - sent[i] >= Interval

\* C28: in annual and in quarterly mode the empty end date is never a key
\* of a resolved series, no value of a series comes from an observation
\* without end date, and every column of the table is the period of a
\* non-empty end date of some series.
C28_EmptyEndDropped ==
    Resolved =>
        /\ \A i \in Fields :
              /\ <<>> \notin DOMAIN items[i].data
              /\ \A d \in DOMAIN items[i].data : Src(items[i].data[d]).e.end = d
        /\ IsTable =>
              \A k \in 1..Len(ret.frame.columns) :
                  /\ ret.frame.columns[k] # <<>>
                  /\ \E i \in Fields : \E d \in DOMAIN items[i].data :
                        d # <<>> /\ ret.frame.columns[k] = Period(d, ret.quarter)

\* a table whose field was resolved from a list that also holds an
\* observation of the wanted form without end date, filed no earlier than
\* the observation the value comes from
C28_Witness ==
    /\ Resolved /\ IsTable
    /\ \E i \in Fields : \E d \in DOMAIN items[i].data :
          LET o == Src(items[i].data[d])
          IN  \E x \in AllObs :
                /\ x.concept = o.concept /\ x.unit = o.unit
                /\ x.e.end = <<>>
                /\ x.e.form = WantedForm
                /\ ~StrLess(x.e.filed, o.e.filed)

\* the value an observation resolves to: its val, 0 when it has none
ValOf(e) == IF "val" \in DOMAIN e THEN e.val ELSE 0

DaysOf(e) == Ordinal(e.end) - Ordinal(e.start)

\* a 10-K observation the annual filter keeps: an end date, and dates that
\* cannot be measured or lie at least 350 days apart
KeptAnnual(e) ==
    /\ e.form = "10-K"
    /\ e.end # <<>>
    /\ (e.start = <<>> \/ ~Parses(e.start) \/ ~Parses(e.end) \/ DaysOf(e) >= 350)

\* the other observations of the list of o with the end date of o
SameEnd(o) ==
    {g \in AllObs : /\ g.concept = o.concept /\ g.unit = o.unit
                    /\ g.pos # o.pos /\ g.e.end = o.e.end}

\* C29: in an annual call a 10-K observation with parseable start and end
\* dates, in the list read for a field, is kept exactly when its end date
\* is at least 350 days after its start date.  Kept, its end date is a key
\* and the value under it is its own or that of a kept observation filed
\* no earlier; discarded, its end date is a key only by another kept
\* observation, whose value the key holds.
C29_AnnualDurationBoundary ==
    (Extracted /\ ~ret.quarter) =>
        \A i \in Fields : \A o \in AllObs :
            (/\ ReadFor(i, o) /\ o.e.form = "10-K"
             /\ Parses(o.e.start) /\ Parses(o.e.end)) =>
                LET data == items[i].data
                    d == o.e.end
                    rivals == {g \in SameEnd(o) : KeptAnnual(g.e)}
                IN  IF DaysOf(o.e) >= 350
                    THEN /\ d \in DOMAIN data
                         /\ \/ data[d] = ValOf(o.e)
                            \/ \E g \in rivals : /\ data[d] = ValOf(g.e)
                                                  /\ ~StrLess(g.e.filed, o.e.filed)
                    ELSE /\ d \in DOMAIN data <=> rivals # {}
                         /\ d \in DOMAIN data =>
                               \E g \in rivals : data[d] = ValOf(g.e)

\* an annual series whose value comes from an observation of exactly 350
\* days, listed with an observation of 349 days that was filed later
C29_Witness ==
    /\ Extracted /\ ~ret.quarter
    /\ \E i \in Fields : \E o \in AllObs :
          /\ ReadFor(i, o)
          /\ Parses(o.e.start) /\ DaysOf(o.e) = 350
          /\ "val" \in DOMAIN o.e
          /\ o.e.end \in DOMAIN items[i].data
          /\ items[i].data[o.e.end] = o.e.val
          /\ \E g \in SameEnd(o) :
                /\ g.e.form = "10-K" /\ Parses(g.e.start) /\ DaysOf(g.e) = 349
                /\ StrLess(o.e.filed, g.e.filed)

\* C30: among the surviving observations of an end date, one without filed
\* date provides the value only when none has a filed date, and then the
\* first listed does; otherwise the value is that of an observation with
\* the greatest filed date.  A surviving observation without value makes
\* its end date a key all the same, and the key holds 0 when it provides
\* the value.
C30_MissingFiledAndValue ==
    Extracted =>
        \A i \in Fields : \A o \in AllObs :
            (ReadFor(i, o) /\ o \in Taking(o.concept)) =>
                LET data == items[i].data
                    d == o.e.end
                    dated == {g \in Group(o) : g.e.filed # <<>>}
                IN  /\ d \in DOMAIN data
                    /\ IF dated = {}
                       THEN \E g \in Group(o) :
                                /\ \A h \in Group(o) : g.pos <= h.pos
                                /\ data[d] = ValOf(g.e)
                       ELSE \E g \in dated :
                                /\ \A h \in dated :
                                      /\ ~StrLess(g.e.filed, h.e.filed)
                                      /\ h.e.filed = g.e.filed => g.pos <= h.pos
                                /\ data[d] = ValOf(g.e)

\* the first listed observation has a value and no filed date, the second
\* a filed date and no value, and the key holds 0
C30_Witness ==
    /\ Extracted
    /\ \E i \in Fields : \E o \in AllObs :
          /\ ReadFor(i, o) /\ o \in Taking(o.concept)
          /\ o.e.filed = <<>> /\ "val" \in DOMAIN o.e
          /\ \E g \in Group(o) :
                /\ o.pos < g.pos
                /\ g.e.filed # <<>> /\ "val" \notin DOMAIN g.e
          /\ items[i].data[o.e.end] = 0

====
